---- MODULE Spec2Model ----
\* Omnitrack: the inventory reservation and order lifecycle of database.py,
\* run by concurrent callers against one PostgreSQL database (READ COMMITTED).
\* Committed tables are the variables products, orders, audit; every caller
\* (a connection) has a call record holding the position of its handler, its
\* row locks and the writes of its open transaction.
EXTENDS Integers, Sequences, FiniteSets, Bags, TLC

VARIABLES products, orders, audit, next_order_id, calls, call

vars == <<products, orders, audit, next_order_id, calls, call>>

\* ---------------------------------------------------------------- bounds
\* calls made in one behaviour (also the clock: a call's CURRENT_TIMESTAMP is its
\* number) and ids the orders sequence hands out
MaxCalls == 3
MaxOrders == 2

Procs == {1, 2}
ProductIds == {1, 2}
OrderIds == 1..MaxOrders
PositiveQty == {1, 2}
\* stock a caller passes to create_product, and the ids the products sequence hands
\* out to the products created
SeedStock == {1, 2}
NewProductIds == {2, 3}
LedgerOrderIds == {1}
\* columns and values a caller of update_product may name in its keyword arguments
Columns == {"price", "stock_quantity", "reserved_quantity"}
ColumnValues == {0, 1}
\* stock levels, reservations and thresholds of the shelves the low-stock query is
\* run against
StockLevels == {0, 3, 6}
Thresholds == {2, 5}
ProductUpdates == UNION {[D -> ColumnValues] : D \in SUBSET Columns}
\* quantities a caller may pass when nothing restricts them to positive ones
AnyQty == {-1, 0} \cup PositiveQty

\* ---------------------------------------------------------------- data model
PLACED == "placed"
PAID == "paid"
DELIVERED == "delivered"
CANCELLED == "cancelled"
OrderStatus == {PLACED, PAID, DELIVERED, CANCELLED}

RESERVE == "reserve"
SALE == "sale"
RELEASE == "release"
RESTOCK == "restock"
TransactionType == {RESERVE, SALE, RELEASE, RESTOCK}

NULL == 0

\* the price every product is listed at by create_product, which is also the
\* unit_price a caller quotes in the items of an order
ListPrice == 2

\* the low_stock_threshold of a product created without one
DefaultThreshold == 10

Product(stock, reserved) ==
    [stock_quantity |-> stock, reserved_quantity |-> reserved, price |-> ListPrice,
     low_stock_threshold |-> DefaultThreshold]
NoRow == [stock_quantity |-> -1, reserved_quantity |-> -1, price |-> -1,
          low_stock_threshold |-> -1]

available_quantity(row) == row.stock_quantity - row.reserved_quantity

\* (low stock judged by what is left to sell)
is_low_available(row) == available_quantity(row) <= row.low_stock_threshold

is_low_stock(row) == row.stock_quantity <= row.low_stock_threshold

OrderItem(p, q) == [product_id |-> p, quantity |-> q, unit_price |-> ListPrice]

\* OrderItem.total_price and Order.total_amount
total_price(item) == item.quantity * item.unit_price

RECURSIVE SumPrices(_)
SumPrices(items) ==
    IF items = <<>> THEN 0 ELSE total_price(Head(items)) + SumPrices(Tail(items))

total_amount(order) == SumPrices(order.items)

Order(st, its, paid, deliv) ==
    [status |-> st, items |-> its, paid_at |-> paid, delivered_at |-> deliv]
NoOrder == Order("absent", <<>>, NULL, NULL)

InventoryTransaction(p, type, q, o) ==
    [product_id |-> p, transaction_type |-> type, quantity |-> q, order_id |-> o]

\* item lists a caller may pass: none, one item of any quantity in Q, or two items
\* of one unit each (the same product twice included), over every product id
\* (an id without a committed row names no product)
ItemLists(Q) ==
    LET Items == {OrderItem(p, q) : p \in ProductIds, q \in Q}
    IN {<<>>} \cup {<<a>> : a \in Items}
       \cup {<<a, b>> : a \in {i \in Items : i.quantity = 1}, b \in {i \in Items : i.quantity = 1}}

\* ---------------------------------------------------------------- substrate
\* the products table: row p is products[p]; an id the products sequence has handed
\* out whose INSERT is not committed holds NoRow, and no statement finds it
Exists(p) == p \in 1..Len(products) /\ products[p] # NoRow

\* the ids of the committed rows
ProductRows == {p \in 1..Len(products) : products[p] # NoRow}
\* (an order lookup that finds a row for every id)
AnyOrderFound(o) == TRUE

OrderExists(o) == orders[o].status # "absent"

\* the connections holding the row lock of product p
LockHolder(p) == {x \in Procs : p \in call[x].locks}

\* (a read that takes no row lock and waits for nobody)
NoRowLock(proc, p) == TRUE

\* (a lock on the whole products table instead of the row)
TableLock(proc, p) == \A r \in ProductIds : LockHolder(r) \subseteq {proc}

\* a locking statement of proc on row p proceeds: nobody else holds the lock
LockFree(proc, p) == LockHolder(p) \subseteq {proc}

\* (a read that sees the uncommitted write of whoever holds the row)
DirtyVisible(proc, p) ==
    IF LockHolder(p) = {} THEN products[p]
    ELSE call[CHOOSE x \in LockHolder(p) : TRUE].rows[p]

\* (a statement that sees the committed row even where its own transaction has
\* written the row already)
CommittedOnly(proc, p) == products[p]

\* the version of row p a statement of proc sees: its own write, else committed
Visible(proc, p) == IF p \in call[proc].locks THEN call[proc].rows[p] ELSE products[p]

NoRows == [p \in ProductIds |-> NoRow]

IdleCall ==
    [op |-> "none", pc |-> "idle", product_id |-> 0, quantity |-> 0, order_id |-> 0,
     status |-> "none", items |-> <<>>, idx |-> 0, locks |-> {}, rows |-> NoRows,
     log |-> EmptyBag, ok |-> FALSE, ts |-> 0, result |-> NULL]

\* a caller is free to make a call; the model stops after MaxCalls calls
Free(proc) == call[proc].pc \in {"idle", "done"}
CanCall(proc) ==
    /\ Free(proc)
    /\ calls < MaxCalls

\* conn.commit(): the transaction's row versions replace the committed ones
Committed(c) ==
    [p \in 1..Len(products) |-> IF p \in c.locks THEN c.rows[p] ELSE products[p]]

\* the call is over: the connection closes, locks and pending writes are gone
Finished(c, result) == [IdleCall EXCEPT !.pc = "done", !.ok = result]

\* ---------------------------------------------------------------- Init
\* the demo products of _create_demo_data, in the order they are created: price (in
\* cents), stock and low_stock_threshold as listed
DemoProduct(cents, stock, threshold) ==
    [Product(stock, 0) EXCEPT !.price = cents, !.low_stock_threshold = threshold]

demo_products ==
    << DemoProduct(12999, 25, 5), DemoProduct(2999, 15, 3), DemoProduct(19999, 8, 2),
       DemoProduct(3999, 12, 3), DemoProduct(4999, 20, 5), DemoProduct(29999, 6, 2),
       DemoProduct(1999, 30, 10), DemoProduct(2499, 18, 5) >>

\* the "Initial stock" RESTOCK entries create_product has written for the rows of a
\* products table
InitialStock(table) ==
    [e \in {InventoryTransaction(p, RESTOCK, table[p].stock_quantity, NULL) :
                p \in 1..Len(table)}
        |-> Cardinality({p \in 1..Len(table) :
                e = InventoryTransaction(p, RESTOCK, table[p].stock_quantity, NULL)})]

\* the products tables Database() is constructed on: an empty one, or one that holds
\* a single product created earlier with some stock
StoredProducts == {<<>>} \cup {<<Product(s, 0)>> : s \in SeedStock}

\* _create_demo_data: the demo products are created when the table holds no product
create_demo_data(table) == IF Len(table) = 0 THEN demo_products ELSE table

\* the database after construction: the products the table held, or the demo
\* products, each with its "Initial stock" RESTOCK entry; no orders
Init ==
    /\ \E table \in StoredProducts :
         /\ products = create_demo_data(table)
         /\ audit = InitialStock(create_demo_data(table))
    /\ orders = [o \in OrderIds |-> NoOrder]
    /\ next_order_id = 1
    /\ calls = 0
    /\ call = [x \in Procs |-> IdleCall]

\* ---------------------------------------------------------------- audit log
\* the entry a ledger call writes once its own transaction has committed
AuditType(op) ==
    CASE op = "create_product" -> RESTOCK
      [] op = "restock_product" -> RESTOCK
      [] op = "reserve_stock" -> RESERVE
      [] op = "release_stock" -> RELEASE
      [] op = "sell_product" -> SALE

\* (an entry written over the log instead of being added to it)
overwrite_inventory_transaction(proc) ==
    LET c == call[proc] IN
    /\ c.pc = "audit"
    /\ audit' = SetToBag(
           {InventoryTransaction(c.product_id, AuditType(c.op), c.quantity, c.order_id)})
    /\ call' = [call EXCEPT ![proc] = Finished(c, TRUE)]
    /\ UNCHANGED <<products, orders, next_order_id, calls>>

\* create_inventory_transaction: INSERT and commit on a connection of its own,
\* called by a ledger operation after that operation's commit
create_inventory_transaction(proc) ==
    LET c == call[proc] IN
    /\ c.pc = "audit"
    /\ audit' = audit (+) SetToBag(
           {InventoryTransaction(c.product_id, AuditType(c.op), c.quantity, c.order_id)})
    /\ call' = [call EXCEPT ![proc] = Finished(c, TRUE)]
    /\ UNCHANGED <<products, orders, next_order_id, calls>>

\* ---------------------------------------------------------------- product ledger
\* create_product, the INSERT ... RETURNING *: the row gets the next id of the
\* products sequence (which no rollback gives back) and reserved_quantity 0; it is
\* not visible to other connections before the commit. The model creates products
\* while the new id is in NewProductIds.
create_product(proc, stock) ==
    /\ CanCall(proc)
    /\ Len(products) + 1 \in NewProductIds
    /\ products' = Append(products, NoRow)
    /\ call' = [call EXCEPT ![proc] =
           [IdleCall EXCEPT !.op = "create_product", !.pc = "commit",
                            !.product_id = Len(products) + 1, !.quantity = stock]]
    /\ calls' = calls + 1
    /\ UNCHANGED <<orders, audit, next_order_id>>

\* create_product, conn.commit(): the row becomes visible; the audit entry follows
create_product_commit(proc) ==
    LET c == call[proc] IN
    /\ c.op = "create_product" /\ c.pc = "commit"
    /\ products' = [products EXCEPT ![c.product_id] = Product(c.quantity, 0)]
    /\ call' = [call EXCEPT ![proc] = [c EXCEPT !.pc = "audit"]]
    /\ UNCHANGED <<orders, audit, next_order_id, calls>>

\* restock_product: UPDATE stock_quantity = stock_quantity + q WHERE id = p, commit;
\* the audit entry follows when a row was updated
restock_product(proc, p, q) ==
    /\ CanCall(proc)
    /\ calls' = calls + 1
    /\ LET c == [IdleCall EXCEPT !.op = "restock_product", !.product_id = p,
                                 !.quantity = q]
       IN IF Exists(p)
          THEN /\ LockFree(proc, p)
               /\ products' = [products EXCEPT ![p].stock_quantity = @ + q]
               /\ call' = [call EXCEPT ![proc] = [c EXCEPT !.pc = "audit"]]
          ELSE /\ products' = products
               /\ call' = [call EXCEPT ![proc] = Finished(c, FALSE)]
    /\ UNCHANGED <<orders, audit, next_order_id>>

\* (an availability check that looks at the stock and forgets the reservations)
CanReserveFromStock(row, q) == row.stock_quantity >= q

\* the availability condition of reserve_stock and create_order
CanReserve(row, q) == available_quantity(row) >= q

\* reserve_stock, first statement: a plain SELECT of the committed row (no lock)
reserve_stock_select(proc, p, q, o) ==
    /\ CanCall(proc)
    /\ calls' = calls + 1
    /\ LET c == [IdleCall EXCEPT !.op = "reserve_stock", !.product_id = p,
                                 !.quantity = q, !.order_id = o]
       IN call' = [call EXCEPT ![proc] =
              IF Exists(p) /\ CanReserve(products[p], q)
              THEN [c EXCEPT !.pc = "update"]
              ELSE Finished(c, FALSE)]
    /\ UNCHANGED <<products, orders, audit, next_order_id>>

\* reserve_stock, second statement: UPDATE reserved_quantity = reserved_quantity + q
\* WHERE id = p on the row as it is now, then commit
reserve_stock_update(proc) ==
    LET c == call[proc] IN
    /\ c.op = "reserve_stock" /\ c.pc = "update"
    /\ LockFree(proc, c.product_id)
    /\ products' = [products EXCEPT ![c.product_id].reserved_quantity = @ + c.quantity]
    /\ call' = [call EXCEPT ![proc] = [c EXCEPT !.pc = "audit"]]
    /\ UNCHANGED <<orders, audit, next_order_id, calls>>

\* (an UPDATE without the reserved_quantity condition in its WHERE clause)
ReservedUnchecked(row, q) == TRUE

\* (a WHERE clause that compares the stock instead of the reservations)
HasStock(row, q) == row.stock_quantity >= q

\* the WHERE clause "reserved_quantity >= q" of release, sale, pay and cancel
HasReserved(row, q) == row.reserved_quantity >= q

\* release_stock: UPDATE reserved_quantity - q WHERE id = p AND reserved_quantity >= q
release_stock(proc, p, q, o) ==
    /\ CanCall(proc)
    /\ calls' = calls + 1
    /\ LET c == [IdleCall EXCEPT !.op = "release_stock", !.product_id = p,
                                 !.quantity = q, !.order_id = o]
       IN IF Exists(p) /\ HasReserved(products[p], q)
          THEN /\ LockFree(proc, p)
               /\ products' = [products EXCEPT ![p].reserved_quantity = @ - q]
               /\ call' = [call EXCEPT ![proc] = [c EXCEPT !.pc = "audit"]]
          ELSE /\ products' = products
               /\ call' = [call EXCEPT ![proc] = Finished(c, FALSE)]
    /\ UNCHANGED <<orders, audit, next_order_id>>

\* sell_product: UPDATE stock_quantity - q, reserved_quantity - q
\* WHERE id = p AND reserved_quantity >= q
sell_product(proc, p, q, o) ==
    /\ CanCall(proc)
    /\ calls' = calls + 1
    /\ LET c == [IdleCall EXCEPT !.op = "sell_product", !.product_id = p,
                                 !.quantity = q, !.order_id = o]
       IN IF Exists(p) /\ HasReserved(products[p], q)
          THEN /\ LockFree(proc, p)
               /\ products' = [products EXCEPT ![p].stock_quantity = @ - q,
                                               ![p].reserved_quantity = @ - q]
               /\ call' = [call EXCEPT ![proc] = [c EXCEPT !.pc = "audit"]]
          ELSE /\ products' = products
               /\ call' = [call EXCEPT ![proc] = Finished(c, FALSE)]
    /\ UNCHANGED <<orders, audit, next_order_id>>

\* an update that also re-prices the stored items of the product
update_product_repricing(proc, p, kwargs) ==
    /\ CanCall(proc)
    /\ calls' = calls + 1
    /\ IF DOMAIN kwargs # {} /\ Exists(p)
       THEN /\ LockFree(proc, p)
            /\ products' = [products EXCEPT ![p] =
                   [f \in DOMAIN @ |-> IF f \in DOMAIN kwargs THEN kwargs[f] ELSE @[f]]]
            /\ orders' = [o \in OrderIds |-> [orders[o] EXCEPT !.items =
                   [i \in DOMAIN @ |->
                       IF @[i].product_id = p /\ "price" \in DOMAIN kwargs
                       THEN [@[i] EXCEPT !.unit_price = kwargs["price"]] ELSE @[i]]]]
            /\ call' = [call EXCEPT ![proc] = Finished(IdleCall, TRUE)]
       ELSE /\ products' = products
            /\ orders' = orders
            /\ call' = [call EXCEPT ![proc] = Finished(IdleCall, FALSE)]
    /\ UNCHANGED <<audit, next_order_id>>

\* update_product: UPDATE products SET <every keyword argument> WHERE id = p and
\* commit; returns rowcount > 0, or False without a statement when no keyword
\* argument is given.
update_product(proc, p, kwargs) ==
    /\ CanCall(proc)
    /\ calls' = calls + 1
    /\ IF DOMAIN kwargs # {} /\ Exists(p)
       THEN /\ LockFree(proc, p)
            /\ products' = [products EXCEPT ![p] =
                   [f \in DOMAIN @ |-> IF f \in DOMAIN kwargs THEN kwargs[f] ELSE @[f]]]
            /\ call' = [call EXCEPT ![proc] = Finished(IdleCall, TRUE)]
       ELSE /\ products' = products
            /\ call' = [call EXCEPT ![proc] = Finished(IdleCall, FALSE)]
    /\ UNCHANGED <<orders, audit, next_order_id>>

\* ---------------------------------------------------------------- query surface
\* a read returns: the call is over, what it fetched is with the caller
Returned(c, found, value) == [c EXCEPT !.pc = "done", !.ok = found, !.result = value]

\* get_product_by_id: SELECT * FROM products WHERE id = p on a connection of its own
get_product_by_id(proc, p) ==
    /\ CanCall(proc)
    /\ calls' = calls + 1
    /\ LET c == [IdleCall EXCEPT !.op = "get_product_by_id", !.product_id = p]
       IN call' = [call EXCEPT ![proc] =
              IF Exists(p) THEN Returned(c, TRUE, Visible(proc, p))
              ELSE Returned(c, FALSE, NULL)]
    /\ UNCHANGED <<products, orders, audit, next_order_id>>

\* get_order_by_id: SELECT the order row, return None when there is none, then
\* SELECT its order_items (committed with the order row, never written again)
get_order_by_id(proc, o) ==
    /\ CanCall(proc)
    /\ calls' = calls + 1
    /\ LET c == [IdleCall EXCEPT !.op = "get_order_by_id", !.order_id = o]
       IN call' = [call EXCEPT ![proc] =
              IF OrderExists(o) THEN Returned(c, TRUE, orders[o])
              ELSE Returned(c, FALSE, NULL)]
    /\ UNCHANGED <<products, orders, audit, next_order_id>>

\* get_transactions_by_product: SELECT * FROM inventory_transactions WHERE product_id = p
get_transactions_by_product(proc, p) ==
    /\ CanCall(proc)
    /\ calls' = calls + 1
    /\ LET c == [IdleCall EXCEPT !.op = "get_transactions_by_product", !.product_id = p]
           entries == {e \in BagToSet(audit) : e.product_id = p}
       IN call' = [call EXCEPT ![proc] =
              Returned(c, TRUE, [e \in entries |-> CopiesIn(e, audit)])]
    /\ UNCHANGED <<products, orders, audit, next_order_id>>

\* get_low_stock_products: SELECT * FROM products WHERE stock_quantity <=
\* low_stock_threshold ORDER BY stock_quantity; rows of equal stock come in any order.
\* The result lists the ids of the rows returned.
get_low_stock_products(proc) ==
    /\ CanCall(proc)
    /\ calls' = calls + 1
    /\ LET c == [IdleCall EXCEPT !.op = "get_low_stock_products"]
           rows == {p \in ProductRows :
                       products[p].stock_quantity <= products[p].low_stock_threshold}
       IN \E list \in [1..Cardinality(rows) -> rows] :
             /\ \A i, j \in DOMAIN list :
                   i < j => /\ list[i] # list[j]
                            /\ products[list[i]].stock_quantity
                                  <= products[list[j]].stock_quantity
             /\ call' = [call EXCEPT ![proc] = Returned(c, TRUE, list)]
    /\ UNCHANGED <<products, orders, audit, next_order_id>>

\* ---------------------------------------------------------------- order engine
\* (a handler that misses the rollback-and-return and goes on to its commit)
RollbackFallsThrough(c) == [c EXCEPT !.pc = "commit"]

\* (a return that leaves the transaction open: its row locks stay with the connection)
ReturnHoldingLocks(c) == [Finished(c, FALSE) EXCEPT !.locks = c.locks]

\* conn.rollback(): nothing the transaction wrote survives, the call returns None/False
Rollback(c) == Finished(c, FALSE)

\* create_order, first statement: INSERT INTO orders ... RETURNING * (the id comes
\* from the orders sequence, which a rollback does not give back)
create_order_insert(proc, items) ==
    /\ CanCall(proc)
    /\ next_order_id <= MaxOrders
    /\ calls' = calls + 1
    /\ next_order_id' = next_order_id + 1
    /\ call' = [call EXCEPT ![proc] =
           [IdleCall EXCEPT !.op = "create_order", !.items = items, !.idx = 1,
                            !.order_id = next_order_id, !.status = PLACED,
                            !.pc = IF items = <<>> THEN "commit" ELSE "items",
                            !.ts = calls + 1]]
    /\ UNCHANGED <<products, orders, audit>>

\* create_order, one pass of the loop over items: SELECT ... FOR UPDATE, the
\* availability check, then UPDATE products, INSERT INTO inventory_transactions and
\* INSERT INTO order_items inside the open transaction
create_order_item(proc) ==
    LET c == call[proc]
        item == c.items[c.idx]
        p == item.product_id
        row == Visible(proc, p)
    IN /\ c.op = "create_order" /\ c.pc = "items"
       /\ IF ~Exists(p)
          THEN call' = [call EXCEPT ![proc] = Rollback(c)]
          ELSE /\ LockFree(proc, p)
               /\ call' = [call EXCEPT ![proc] =
                      IF ~CanReserve(row, item.quantity)
                      THEN Rollback(c)
                      ELSE [c EXCEPT
                              !.locks = @ \cup {p},
                              !.rows[p] = [row EXCEPT !.reserved_quantity = @ + item.quantity],
                              !.log = @ (+) SetToBag({InventoryTransaction(p, RESERVE, item.quantity, c.order_id)}),
                              !.idx = @ + 1,
                              !.pc = IF c.idx = Len(c.items) THEN "commit" ELSE "items"]]
       /\ UNCHANGED <<products, orders, audit, next_order_id, calls>>

\* create_order, conn.commit(): the order row, its items, the reservations and the
\* RESERVE entries become visible together
create_order_commit(proc) ==
    LET c == call[proc] IN
    /\ c.op = "create_order" /\ c.pc = "commit"
    /\ products' = Committed(c)
    /\ audit' = audit (+) c.log
    /\ orders' = [orders EXCEPT ![c.order_id] = Order(PLACED, c.items, NULL, NULL)]
    /\ call' = [call EXCEPT ![proc] = Finished(c, TRUE)]
    /\ UNCHANGED <<next_order_id, calls>>

\* update_order_status, the reads: SELECT the order (no lock), return False when
\* it is missing; for PAID and CANCELLED also SELECT its order_items. The status of
\* the order_row fetched stays with the call (result); no later statement looks at it.
update_order_status_select(proc, o, st) ==
    /\ CanCall(proc)
    /\ calls' = calls + 1
    /\ LET c == [IdleCall EXCEPT !.op = "update_order_status", !.order_id = o,
                                 !.status = st, !.ts = calls + 1]
       IN call' = [call EXCEPT ![proc] =
              IF ~OrderExists(o)
              THEN Finished(c, FALSE)
              ELSE IF st \in {PAID, CANCELLED} /\ orders[o].items # <<>>
                   THEN [c EXCEPT !.items = orders[o].items, !.idx = 1, !.pc = "items",
                                  !.result = orders[o].status]
                   ELSE [c EXCEPT !.pc = "commit", !.result = orders[o].status]]
    /\ UNCHANGED <<products, orders, audit, next_order_id>>

\* the row an item's UPDATE of update_order_status leaves: PAID takes the quantity
\* off stock and reserved, CANCELLED off reserved only
Settled(st, row, q) ==
    IF st = PAID
    THEN [row EXCEPT !.stock_quantity = @ - q, !.reserved_quantity = @ - q]
    ELSE [row EXCEPT !.reserved_quantity = @ - q]

\* update_order_status, one pass of the loop over item_rows: the guarded UPDATE of
\* the product (its rowcount is not looked at) and the INSERT of the SALE or
\* RELEASE entry
update_order_status_item(proc) ==
    LET c == call[proc]
        item == c.items[c.idx]
        p == item.product_id
        row == Visible(proc, p)
        entry == InventoryTransaction(p, IF c.status = PAID THEN SALE ELSE RELEASE,
                                      item.quantity, c.order_id)
        next == [c EXCEPT !.log = @ (+) SetToBag({entry}), !.idx = @ + 1,
                          !.pc = IF c.idx = Len(c.items) THEN "commit" ELSE "items"]
    IN /\ c.op = "update_order_status" /\ c.pc = "items"
       /\ IF HasReserved(row, item.quantity)
          THEN /\ LockFree(proc, p)
               /\ call' = [call EXCEPT ![proc] =
                      [next EXCEPT !.locks = @ \cup {p},
                                   !.rows[p] = Settled(c.status, row, item.quantity)]]
          ELSE call' = [call EXCEPT ![proc] = next]
       /\ UNCHANGED <<products, orders, audit, next_order_id, calls>>

\* the order row after UPDATE orders SET status [, paid_at | delivered_at]
\* (updated_at is not modelled)
Transitioned(order, st, now) ==
    [order EXCEPT !.status = st,
                  !.paid_at = IF st = PAID THEN now ELSE @,
                  !.delivered_at = IF st = DELIVERED THEN now ELSE @]

\* update_order_status, the end: UPDATE orders ... WHERE id = o and conn.commit();
\* returns cur.rowcount > 0
update_order_status_commit(proc) ==
    LET c == call[proc] IN
    /\ c.op = "update_order_status" /\ c.pc = "commit"
    /\ products' = Committed(c)
    /\ audit' = audit (+) c.log
    /\ orders' = [orders EXCEPT ![c.order_id] = Transitioned(@, c.status, c.ts)]
    /\ call' = [call EXCEPT ![proc] = Finished(c, TRUE)]
    /\ UNCHANGED <<next_order_id, calls>>

\* ---------------------------------------------------------------- deadlock
\* the connections whose row lock the next statement of proc waits for
WaitsFor(proc) ==
    LET c == call[proc] IN
    IF c.pc # "items" THEN {}
    ELSE LET p == c.items[c.idx].product_id IN
         IF ~Exists(p) THEN {}
         ELSE IF c.op = "update_order_status"
                 /\ ~HasReserved(Visible(proc, p), c.items[c.idx].quantity)
              THEN {}
              ELSE LockHolder(p) \ {proc}

RECURSIVE WaitChain(_, _)
WaitChain(S, n) ==
    IF n = 0 THEN S
    ELSE WaitChain(S \cup UNION {WaitsFor(x) : x \in S}, n - 1)

Deadlocked(proc) == proc \in WaitChain(WaitsFor(proc), Cardinality(Procs))

\* PostgreSQL's deadlock detector aborts one transaction of a wait cycle; psycopg2
\* raises, and the handler's "except Exception" rolls back and returns None/False
deadlock_abort(proc) ==
    /\ Deadlocked(proc)
    /\ call' = [call EXCEPT ![proc] = Rollback(call[proc])]
    /\ UNCHANGED <<products, orders, audit, next_order_id, calls>>

\* ---------------------------------------------------------------- specification
NextQ(Q) ==
    \E proc \in Procs :
       \/ \E s \in SeedStock : create_product(proc, s)
       \/ create_product_commit(proc)
       \/ \E p \in ProductIds, q \in Q : restock_product(proc, p, q)
       \/ \E p \in ProductIds, q \in Q, o \in LedgerOrderIds : reserve_stock_select(proc, p, q, o)
       \/ reserve_stock_update(proc)
       \/ \E p \in ProductIds, q \in Q, o \in LedgerOrderIds : release_stock(proc, p, q, o)
       \/ \E p \in ProductIds, q \in Q, o \in LedgerOrderIds : sell_product(proc, p, q, o)
       \/ create_inventory_transaction(proc)
       \/ \E items \in ItemLists(Q) : create_order_insert(proc, items)
       \/ create_order_item(proc)
       \/ create_order_commit(proc)
       \/ \E o \in OrderIds, st \in OrderStatus : update_order_status_select(proc, o, st)
       \/ update_order_status_item(proc)
       \/ update_order_status_commit(proc)
       \/ deadlock_abort(proc)

Next == NextQ(PositiveQty)

Spec == Init /\ [][Next]_vars

\* the same calls, made with any quantity (the handlers take any int)
NextAnyQty == NextQ(AnyQty)

SpecAnyQty == Init /\ [][NextAnyQty]_vars

\* the ledger and order calls together with the product maintenance call
NextUpdate ==
    \/ Next
    \/ \E proc \in Procs, p \in ProductIds, kwargs \in ProductUpdates :
          update_product(proc, p, kwargs)

SpecUpdate == Init /\ [][NextUpdate]_vars

\* the order engine by itself: products are created, orders are created and
\* moved between statuses, and no ledger call is made
NextOrders ==
    \E proc \in Procs :
       \/ \E s \in SeedStock : create_product(proc, s)
       \/ create_product_commit(proc)
       \/ create_inventory_transaction(proc)
       \/ \E items \in ItemLists(PositiveQty) : create_order_insert(proc, items)
       \/ create_order_item(proc)
       \/ create_order_commit(proc)
       \/ \E o \in OrderIds, st \in OrderStatus : update_order_status_select(proc, o, st)
       \/ update_order_status_item(proc)
       \/ update_order_status_commit(proc)
       \/ deadlock_abort(proc)

SpecOrders == Init /\ [][NextOrders]_vars

\* the order engine together with the reads of the query surface
NextRead ==
    \/ NextOrders
    \/ \E proc \in Procs, p \in ProductIds : get_product_by_id(proc, p)
    \/ \E proc \in Procs, o \in OrderIds : get_order_by_id(proc, o)
    \/ \E proc \in Procs, p \in ProductIds : get_transactions_by_product(proc, p)

SpecRead == Init /\ [][NextRead]_vars

\* the order engine together with the product edits of update_product
NextEdit ==
    \/ NextOrders
    \/ \E proc \in Procs, p \in ProductIds, kwargs \in ProductUpdates :
           update_product(proc, p, kwargs)

SpecEdit == Init /\ [][NextEdit]_vars

\* the low-stock query over shelves of one or two products: each product was
\* created with some stock and threshold, and part of its stock may be reserved
\* through the ledger
ShelfRows ==
    {[Product(s, r) EXCEPT !.low_stock_threshold = t] :
        s \in StockLevels, r \in StockLevels, t \in Thresholds}

RECURSIVE ShelfAudit(_)
ShelfAudit(shelf) ==
    IF shelf = <<>> THEN EmptyBag
    ELSE LET p == Len(shelf)
             row == shelf[p]
         IN ShelfAudit(SubSeq(shelf, 1, p - 1))
            (+) SetToBag({InventoryTransaction(p, RESTOCK, row.stock_quantity, NULL)})
            (+) (IF row.reserved_quantity > 0
                 THEN SetToBag({InventoryTransaction(p, RESERVE, row.reserved_quantity, NULL)})
                 ELSE EmptyBag)

InitShelf ==
    /\ \E a, b \in {r \in ShelfRows : r.reserved_quantity <= r.stock_quantity} :
          products \in {<<a>>, <<a, b>>}
    /\ audit = ShelfAudit(products)
    /\ orders = [o \in OrderIds |-> NoOrder]
    /\ next_order_id = 1
    /\ calls = 0
    /\ call = [x \in Procs |-> IdleCall]

NextLowStock == \E proc \in Procs : get_low_stock_products(proc)

SpecLowStock == InitShelf /\ [][NextLowStock]_vars

\* the statements a call that has begun still has to run
Step(proc) ==
    \/ create_product_commit(proc)
    \/ reserve_stock_update(proc)
    \/ create_inventory_transaction(proc)
    \/ create_order_item(proc)
    \/ create_order_commit(proc)
    \/ update_order_status_item(proc)
    \/ update_order_status_commit(proc)
    \/ deadlock_abort(proc)

\* a handler whose next statement can run does run it (its thread is scheduled and
\* the server executes the statement), and the server's deadlock detector acts on a
\* wait cycle; new calls are made whenever callers please, or never
SpecLive == Spec /\ \A proc \in Procs : WF_vars(Step(proc))

\* ================================================================ properties
Quiescent == \A proc \in Procs : Free(proc)

\* the step is the first step of a call, and proc is free to have made it
Begins(proc) == Free(proc) /\ calls' = calls + 1

\* proc takes the step, and it is the last step of its call
Finishes(proc) == ~Free(proc) /\ call'[proc].pc = "done"

LegalEdges == {<<PLACED, PAID>>, <<PAID, DELIVERED>>, <<PLACED, CANCELLED>>}

\* total quantity of product p over an item list
RECURSIVE ItemQuantity(_, _)
ItemQuantity(items, p) ==
    IF items = <<>> THEN 0
    ELSE (IF Head(items).product_id = p THEN Head(items).quantity ELSE 0)
         + ItemQuantity(Tail(items), p)

\* one audit entry of the given type per item of an order
RECURSIVE ItemEntries(_, _, _)
ItemEntries(items, type, o) ==
    IF items = <<>> THEN EmptyBag
    ELSE SetToBag({InventoryTransaction(Head(items).product_id, type, Head(items).quantity, o)})
         (+) ItemEntries(Tail(items), type, o)

RECURSIVE SumQuantity(_, _)
SumQuantity(S, bag) ==
    IF S = {} THEN 0
    ELSE LET e == CHOOSE x \in S : TRUE
         IN e.quantity * CopiesIn(e, bag) + SumQuantity(S \ {e}, bag)

\* sum of the quantities of the committed audit entries of one type for product p
AuditSum(p, type) ==
    SumQuantity({e \in BagToSet(audit) : e.product_id = p /\ e.transaction_type = type}, audit)

\* ---------------------------------------------------------------- C1
\* C1: in every reachable state (calls made with positive quantities only), every
\* product satisfies 0 <= reserved_quantity <= stock_quantity.
StockInvariant ==
    \A p \in ProductRows :
        /\ 0 <= products[p].reserved_quantity
        /\ products[p].reserved_quantity <= products[p].stock_quantity

\* ---------------------------------------------------------------- C2
\* C2: a create_order call for one unit of product p ends in success, with exactly
\* one more unit of p reserved, when the committed row has a unit available at the
\* moment the call ends, and is rejected without a change otherwise; so of two
\* concurrent calls for the last unit the first to end gets it (available becomes
\* 0, reserved grows by exactly 1) and the other is rejected.
NoOversell ==
    [][\A proc \in Procs, p \in ProductIds :
          LET o == call[proc].order_id IN
          (/\ call[proc].op = "create_order"
           /\ call[proc].items = <<OrderItem(p, 1)>>
           /\ Exists(p)
           /\ Finishes(proc))
          => IF available_quantity(products[p]) >= 1
             THEN /\ call'[proc].ok
                  /\ products'[p] = [products[p] EXCEPT !.reserved_quantity = @ + 1]
                  /\ orders'[o].status = PLACED
             ELSE /\ ~call'[proc].ok
                  /\ products' = products
                  /\ orders' = orders]_vars

\* two create_order calls for the last unit of p overlap: the one that began first
\* (order id 1) still waits for the row, the other has committed order 2
TwoOrdersForLastUnit ==
    \E a \in Procs, b \in Procs, p \in ProductIds :
        /\ a # b /\ Exists(p)
        /\ call[a].op = "create_order" /\ call[a].pc = "items" /\ call[a].order_id = 1
        /\ call[a].items = <<OrderItem(p, 1)>>
        /\ call[b].pc = "done" /\ call[b].ok
        /\ calls = 2
        /\ orders[2].status = PLACED /\ orders[2].items = <<OrderItem(p, 1)>>
        /\ products[p] = Product(1, 1)

\* ---------------------------------------------------------------- C3
\* C3: a create_order call whose next item cannot be reserved (product missing, or
\* fewer units available than the item asks for) is rejected at that item, and no
\* step of a create_order call other than its successful end changes the committed
\* products, orders (with their items) or audit entries.
RejectedOrderLeavesNothing ==
    [][\A proc \in Procs :
          /\ (/\ call[proc].op = "create_order" /\ call[proc].pc = "items"
              /\ call'[proc] # call[proc]
              /\ LET item == call[proc].items[call[proc].idx]
                 IN \/ ~Exists(item.product_id)
                    \/ available_quantity(Visible(proc, item.product_id)) < item.quantity)
             => (call'[proc].pc = "done" /\ ~call'[proc].ok)
          /\ (/\ call'[proc] # call[proc]
              /\ (call[proc].op = "create_order" \/ call'[proc].op = "create_order")
              /\ ~(call'[proc].pc = "done" /\ call'[proc].ok))
             => UNCHANGED <<products, orders, audit>>]_vars

\* a two-item create_order has reserved its first item and its second item cannot
\* be reserved
SecondItemFails ==
    \E proc \in Procs :
        LET c == call[proc] IN
        /\ c.op = "create_order" /\ c.pc = "items" /\ c.idx = 2
        /\ c.locks # {}
        /\ \/ ~Exists(c.items[2].product_id)
           \/ available_quantity(Visible(proc, c.items[2].product_id)) < c.items[2].quantity

\* ---------------------------------------------------------------- C4
\* C4: an order's status changes only along PLACED->PAID, PAID->DELIVERED and
\* PLACED->CANCELLED.
LegalTransitionsOnly ==
    [][\A o \in OrderIds :
          (OrderExists(o) /\ orders'[o].status # orders[o].status)
          => <<orders[o].status, orders'[o].status>> \in LegalEdges]_vars

\* ---------------------------------------------------------------- C5
\* C5: an update_order_status call that asks for a transition which is not a legal
\* edge reports failure and leaves orders, products and audit log as they were.
IllegalTransitionRejected ==
    [][\A proc \in Procs :
          (/\ call[proc].op = "update_order_status"
           /\ Finishes(proc)
           /\ <<orders[call[proc].order_id].status, call[proc].status>> \notin LegalEdges)
          => (~call'[proc].ok /\ UNCHANGED <<products, orders, audit>>)]_vars

\* ---------------------------------------------------------------- C6
\* C6: a successful transition of a PLACED order to PAID takes every item's quantity
\* off both stock_quantity and reserved_quantity of its product, adds exactly one
\* SALE entry per item, sets the status to PAID and sets paid_at.
PaidSettlesEveryItem ==
    [][\A proc \in Procs :
          LET o == call[proc].order_id IN
          (/\ call[proc].op = "update_order_status" /\ call[proc].status = PAID
           /\ Finishes(proc) /\ call'[proc].ok
           /\ orders[o].status = PLACED)
          => /\ \A p \in ProductRows :
                   products'[p] =
                     [products[p] EXCEPT
                        !.stock_quantity = @ - ItemQuantity(orders[o].items, p),
                        !.reserved_quantity = @ - ItemQuantity(orders[o].items, p)]
             /\ audit' = audit (+) ItemEntries(orders[o].items, SALE, o)
             /\ orders'[o].status = PAID
             /\ orders'[o].paid_at # NULL]_vars

\* ---------------------------------------------------------------- C7
\* C7: a successful transition of a PLACED order to CANCELLED takes every item's
\* quantity off reserved_quantity of its product, adds one RELEASE entry per item,
\* and leaves every stock_quantity and the order's paid_at and delivered_at alone.
CancelReleasesEveryItem ==
    [][\A proc \in Procs :
          LET o == call[proc].order_id IN
          (/\ call[proc].op = "update_order_status" /\ call[proc].status = CANCELLED
           /\ Finishes(proc) /\ call'[proc].ok
           /\ orders[o].status = PLACED)
          => /\ \A p \in ProductRows :
                   products'[p] =
                     [products[p] EXCEPT
                        !.reserved_quantity = @ - ItemQuantity(orders[o].items, p)]
             /\ audit' = audit (+) ItemEntries(orders[o].items, RELEASE, o)
             /\ orders'[o].paid_at = orders[o].paid_at
             /\ orders'[o].delivered_at = orders[o].delivered_at]_vars

\* ---------------------------------------------------------------- C8
\* C8: a transition to DELIVERED succeeds only when the order is PAID, and it
\* changes no product quantity and appends no audit entry.
DeliveredOnlyFromPaid ==
    [][\A proc \in Procs :
          (/\ call[proc].op = "update_order_status" /\ call[proc].status = DELIVERED
           /\ Finishes(proc) /\ call'[proc].ok)
          => /\ orders[call[proc].order_id].status = PAID
             /\ UNCHANGED <<products, audit>>]_vars

\* ---------------------------------------------------------------- C9
\* C9: whenever no call is in flight, every product has
\* stock_quantity = sum(RESTOCK) - sum(SALE) and
\* reserved_quantity = sum(RESERVE) - sum(RELEASE) - sum(SALE) over its audit entries.
AuditReconciles ==
    Quiescent =>
    \A p \in ProductRows :
        /\ products[p].stock_quantity = AuditSum(p, RESTOCK) - AuditSum(p, SALE)
        /\ products[p].reserved_quantity =
               AuditSum(p, RESERVE) - AuditSum(p, RELEASE) - AuditSum(p, SALE)

\* ---------------------------------------------------------------- C10
LedgerOps == {"restock_product", "reserve_stock", "release_stock", "sell_product"}

\* C10: a step of restock, reserve, release or finalize-sale that changes the
\* committed quantities of a product makes an audit entry of that product visible
\* in the same step, and an audit entry never becomes visible in a step that leaves
\* the quantities as they were.
AuditNeverSplit ==
    [][\A proc \in Procs :
          (call'[proc] # call[proc]
           /\ (call[proc].op \in LedgerOps \/ call'[proc].op \in LedgerOps))
          => (products' # products <=> audit' # audit)]_vars

\* ---------------------------------------------------------------- C11
\* C11: reserve_stock checks availability and increments reserved_quantity under
\* one row lock: the step of a reserve_stock call that adds its quantity to
\* reserved_quantity finds the committed row with at least that quantity
\* available, so the row it leaves has reserved_quantity <= stock_quantity (of
\* several concurrent calls for the last unit only one gets to increment).
ReserveChecksUnderLock ==
    [][\A proc \in Procs :
          LET c == call[proc] IN
          (/\ c.op = "reserve_stock" /\ c.pc = "update"
           /\ call'[proc].pc = "audit")
          => /\ available_quantity(products[c.product_id]) >= c.quantity
             /\ products'[c.product_id].reserved_quantity
                    <= products'[c.product_id].stock_quantity]_vars

\* ---------------------------------------------------------------- C12
\* C12: a transition to PAID that comes to an item whose product has less reserved
\* than the item's quantity ends there in failure: the call reports False and the
\* committed orders (status, paid_at), products and audit log stay as they were.
PaidRollsBackWhenUnreserved ==
    [][\A proc \in Procs :
          LET c == call[proc] IN
          (/\ c.op = "update_order_status" /\ c.status = PAID /\ c.pc = "items"
           /\ call'[proc] # c
           /\ ~HasReserved(Visible(proc, c.items[c.idx].product_id), c.items[c.idx].quantity))
          => /\ call'[proc].pc = "done" /\ ~call'[proc].ok
             /\ UNCHANGED <<products, orders, audit>>]_vars

\* ---------------------------------------------------------------- C13
\* C13: no two create_order calls ever each hold the row lock of one product and
\* wait for the row lock the other holds.
NoCreateOrderLockCycle ==
    \A a \in Procs, b \in Procs :
        ~(/\ a # b
          /\ call[a].op = "create_order" /\ call[b].op = "create_order"
          /\ call[a].locks # {} /\ call[b].locks # {}
          /\ b \in WaitsFor(a) /\ a \in WaitsFor(b))

\* ---------------------------------------------------------------- C14
\* C14: restock_product with a quantity <= 0 is rejected and leaves products and
\* audit log unchanged; with a quantity > 0 on an existing product it adds exactly
\* that quantity to stock_quantity, leaves reserved_quantity and every other
\* product alone, and ends by appending exactly one RESTOCK entry; on a missing
\* product it reports failure and writes nothing.
RestockValidates ==
    [][\A proc \in Procs :
          /\ \A p \in ProductIds, q \in AnyQty :
                (Begins(proc) /\ restock_product(proc, p, q))
                => IF q > 0 /\ Exists(p)
                   THEN /\ products' = [products EXCEPT ![p].stock_quantity = @ + q]
                        /\ audit' = audit
                        /\ call'[proc].pc = "audit"
                   ELSE /\ call'[proc].pc = "done" /\ ~call'[proc].ok
                        /\ UNCHANGED <<products, audit>>
          /\ (call[proc].op = "restock_product" /\ Finishes(proc))
             => /\ call'[proc].ok
                /\ products' = products
                /\ audit' = audit (+) SetToBag({InventoryTransaction(
                       call[proc].product_id, RESTOCK, call[proc].quantity, NULL)})]_vars

\* ---------------------------------------------------------------- C15
\* C15: a create_order call with an empty item list, or with an item whose
\* quantity is <= 0, ends in failure and persists nothing: no order row and no
\* change of any product.
InvalidOrderRejected ==
    [][\A proc \in Procs :
          LET c == call[proc] IN
          (/\ c.op = "create_order" /\ Finishes(proc)
           /\ \/ c.items = <<>>
              \/ \E i \in 1..Len(c.items) : c.items[i].quantity <= 0)
          => /\ ~call'[proc].ok
             /\ UNCHANGED <<products, orders>>]_vars

\* ---------------------------------------------------------------- C16
\* C16: release_stock on an existing product with reserved_quantity >= its quantity
\* takes exactly that quantity off reserved_quantity, changes nothing else of any
\* product, and ends in success by appending exactly one RELEASE entry; on a
\* product with less reserved, or a missing product, it reports failure and changes
\* neither products nor audit log.
ReleaseContract ==
    [][\A proc \in Procs :
          /\ \A p \in ProductIds, q \in AnyQty, o \in LedgerOrderIds :
                (Begins(proc) /\ release_stock(proc, p, q, o))
                => IF Exists(p) /\ products[p].reserved_quantity >= q
                   THEN /\ products' = [products EXCEPT ![p].reserved_quantity = @ - q]
                        /\ audit' = audit
                        /\ call'[proc].pc = "audit"
                   ELSE /\ call'[proc].pc = "done" /\ ~call'[proc].ok
                        /\ UNCHANGED <<products, audit>>
          /\ (call[proc].op = "release_stock" /\ Finishes(proc))
             => /\ call'[proc].ok
                /\ products' = products
                /\ audit' = audit (+) SetToBag({InventoryTransaction(
                       call[proc].product_id, RELEASE, call[proc].quantity,
                       call[proc].order_id)})]_vars

\* a release_stock call has taken its quantity off a reservation made before and
\* is about to write its RELEASE entry
ReleaseApplied ==
    \E proc \in Procs :
        LET c == call[proc] IN
        /\ c.op = "release_stock" /\ c.pc = "audit"
        /\ c.quantity = 1
        /\ products[c.product_id].reserved_quantity = 1
        /\ AuditSum(c.product_id, RESERVE) = 2

\* ---------------------------------------------------------------- C17
\* C17: sell_product on an existing product with reserved_quantity >= its quantity
\* takes exactly that quantity off both stock_quantity and reserved_quantity,
\* changes nothing else, and ends in success by appending exactly one SALE entry;
\* otherwise it reports failure and changes neither products nor audit log.
SaleContract ==
    [][\A proc \in Procs :
          /\ \A p \in ProductIds, q \in AnyQty, o \in LedgerOrderIds :
                (Begins(proc) /\ sell_product(proc, p, q, o))
                => IF Exists(p) /\ products[p].reserved_quantity >= q
                   THEN /\ products' = [products EXCEPT
                                          ![p].stock_quantity = @ - q,
                                          ![p].reserved_quantity = @ - q]
                        /\ audit' = audit
                        /\ call'[proc].pc = "audit"
                   ELSE /\ call'[proc].pc = "done" /\ ~call'[proc].ok
                        /\ UNCHANGED <<products, audit>>
          /\ (call[proc].op = "sell_product" /\ Finishes(proc))
             => /\ call'[proc].ok
                /\ products' = products
                /\ audit' = audit (+) SetToBag({InventoryTransaction(
                       call[proc].product_id, SALE, call[proc].quantity,
                       call[proc].order_id)})]_vars

\* a sell_product call has taken one reserved unit off a product that still has
\* stock and a reservation left, and is about to write its SALE entry
SaleApplied ==
    \E proc \in Procs :
        LET c == call[proc] IN
        /\ c.op = "sell_product" /\ c.pc = "audit"
        /\ c.quantity = 1
        /\ products[c.product_id] = Product(1, 1)

\* ---------------------------------------------------------------- C18
\* C18: a reserve_stock call made on a missing product, or on a product with fewer
\* units available than it asks for, reports failure and leaves products and audit
\* log unchanged (with stock 2 and 1 reserved, reserving 2 fails and reserved
\* stays 1).
ReserveFailsCleanly ==
    [][\A proc \in Procs, p \in ProductIds, q \in AnyQty, o \in LedgerOrderIds :
          (/\ Begins(proc)
           /\ \/ ~Exists(p)
              \/ products[p].stock_quantity - products[p].reserved_quantity < q
           /\ reserve_stock_select(proc, p, q, o))
          => /\ call'[proc].pc = "done" /\ ~call'[proc].ok
             /\ UNCHANGED <<products, audit>>]_vars

\* a product has stock 2 with 1 reserved, and a reserve_stock call for 2 units is
\* made and ends at once
ReserveBeyondAvailable ==
    \E proc \in Procs, p \in ProductIds, o \in LedgerOrderIds :
        /\ Exists(p)
        /\ products[p] = Product(2, 1)
        /\ ENABLED (reserve_stock_select(proc, p, 2, o) /\ call'[proc].pc = "done")

\* ---------------------------------------------------------------- C19
EngineOps == LedgerOps \cup {"create_order", "update_order_status"}

\* C19: a step that changes stock_quantity or reserved_quantity of a product is a
\* step of restock, reserve, release, finalize-sale, create_order or a status
\* transition, and no step removes a product.
OnlyEngineChangesQuantities ==
    [][/\ Len(products') >= Len(products)
       /\ \A p \in ProductRows :
             products'[p] # products[p]
             => \E proc \in Procs :
                   /\ call'[proc] # call[proc]
                   /\ (call[proc].op \in EngineOps \/ call'[proc].op \in EngineOps)]_vars

\* ---------------------------------------------------------------- C20
OrderOps == {"create_order", "update_order_status"}

\* C20: every create_order and update_order_status call that has begun eventually
\* ends, and it ends either in success or in failure with the committed products,
\* orders and audit log as they were before its last step.
EveryCallTerminates ==
    /\ \A proc \in Procs :
          (call[proc].op \in OrderOps /\ ~Free(proc)) ~> Free(proc)
    /\ [][\A proc \in Procs :
             (call[proc].op \in OrderOps /\ Finishes(proc) /\ ~call'[proc].ok)
             => UNCHANGED <<products, orders, audit>>]_vars

\* two calls wait for each other's row lock: neither can go on by itself
CallsDeadlocked ==
    \E a \in Procs, b \in Procs :
        /\ a # b
        /\ call[a].op \in OrderOps /\ call[b].op \in OrderOps
        /\ Deadlocked(a) /\ Deadlocked(b)

\* ---------------------------------------------------------------- C21
\* C21: the committed audit log only grows: every step leaves every committed
\* entry in the log, with its product, type, quantity and order reference, as many
\* times as it was there before.
AuditAppendOnly ==
    [][audit \sqsubseteq audit']_vars

\* the log holds entries of two calls besides the seed entry, committed one after
\* the other
AuditLogGrown ==
    /\ BagCardinality(audit) >= 3
    /\ \E e \in BagToSet(audit) : e.transaction_type = RESERVE
    /\ \E e \in BagToSet(audit) : e.transaction_type \in {SALE, RELEASE}

\* ---------------------------------------------------------------- C22
\* the products a call refers to: those of its items, or the one of a ledger call
ItemProducts(items) == {items[i].product_id : i \in 1..Len(items)}

Touches(c) == ItemProducts(c.items) \cup (IF c.product_id = 0 THEN {} ELSE {c.product_id})

\* C22: a create_order or transition call whose products are disjoint from those of
\* the other call in flight does not wait for that call (its next statement can
\* run), and a step of a call changes the quantities of no product the call does
\* not refer to.
DisjointCallsProceed ==
    /\ [](\A a \in Procs, b \in Procs :
             (/\ a # b
              /\ call[a].op \in OrderOps /\ call[a].pc = "items"
              /\ Touches(call[a]) \cap Touches(call[b]) = {})
             => /\ b \notin WaitsFor(a)
                /\ ENABLED (create_order_item(a) \/ update_order_status_item(a)))
    /\ [][\A p \in ProductRows :
             products'[p] # products[p]
             => \E a \in Procs :
                   /\ call'[a] # call[a]
                   /\ p \in Touches(call[a]) \cup Touches(call'[a])]_vars

\* two create_order calls with no product in common are in flight, each holding the
\* row lock of its product, and one of them has a statement left to run
DisjointOrdersInFlight ==
    \E a \in Procs, b \in Procs :
        /\ a # b
        /\ call[a].op = "create_order" /\ call[b].op = "create_order"
        /\ call[a].pc = "items"
        /\ call[a].locks # {} /\ call[b].locks # {}
        /\ Touches(call[a]) \cap Touches(call[b]) = {}

\* ---------------------------------------------------------------- C23
\* C23: a read returns committed state only: get_product_by_id returns the
\* committed row, get_order_by_id the committed order (none for an order whose
\* create_order has not committed) and get_transactions_by_product the committed
\* entries, whatever other calls have in flight.
ReadsCommittedOnly ==
    [][\A proc \in Procs :
          Begins(proc)
          => /\ \A p \in ProductIds :
                   get_product_by_id(proc, p)
                   => call'[proc].result = (IF Exists(p) THEN products[p] ELSE NULL)
             /\ \A o \in OrderIds :
                   get_order_by_id(proc, o)
                   => /\ call'[proc].result = (IF OrderExists(o) THEN orders[o] ELSE NULL)
                      /\ (\E w \in Procs : call[w].op = "create_order" /\ ~Free(w)
                                           /\ call[w].order_id = o)
                         => call'[proc].result = NULL
             /\ \A p \in ProductIds :
                   get_transactions_by_product(proc, p)
                   => /\ \A e \in DOMAIN call'[proc].result :
                            /\ e.product_id = p
                            /\ call'[proc].result[e] = CopiesIn(e, audit)
                      /\ \A e \in BagToSet(audit) :
                            e.product_id = p => e \in DOMAIN call'[proc].result]_vars

\* a get_product_by_id call, the second call made, has returned the committed row
\* while the create_order call that was made first holds an uncommitted
\* reservation on that row
ReadDuringCreateOrder ==
    \E r \in Procs, w \in Procs :
        LET p == call[r].product_id IN
        /\ call[r].op = "get_product_by_id" /\ call[r].pc = "done" /\ call[r].ok
        /\ call[w].op = "create_order" /\ call[w].pc = "commit"
        /\ p \in call[w].locks
        /\ call[w].ts = 1 /\ calls = 2
        /\ call[r].result = products[p]
        /\ call[w].rows[p].reserved_quantity > call[r].result.reserved_quantity

\* items an order was created with: those of the create_order call that commits it
CreatedWith(o) == {call[proc].items : proc \in {x \in Procs : call[x].op = "create_order"
                                                            /\ call[x].order_id = o}}

\* C24: the items of an order (product, quantity, unit_price) are those passed to
\* create_order, and no later step (a transition of the order, a change of the
\* product's price or of any other column) alters an item row, so the order's total
\* amount stays the sum of quantity x unit_price captured at creation
ItemsFixedAtCreation ==
    [][\A o \in OrderIds :
          /\ ~OrderExists(o) /\ OrderExists(o)' => orders'[o].items \in CreatedWith(o)
          /\ OrderExists(o) =>
                /\ orders'[o].items = orders[o].items
                /\ total_amount(orders'[o]) = total_amount(orders[o])
                /\ \A i \in DOMAIN orders'[o].items :
                      orders'[o].items[i].unit_price = ListPrice]_vars

\* an order whose status has moved on and whose product is no longer listed at the
\* price its item was sold at
RepricedAfterOrder ==
    \E o \in OrderIds :
        /\ orders[o].status \in {PAID, CANCELLED}
        /\ orders[o].items # <<>>
        /\ \A i \in DOMAIN orders[o].items :
              LET item == orders[o].items[i]
              IN /\ Exists(item.product_id)
                 /\ products[item.product_id].price # item.unit_price

\* C25: the low-stock query returns exactly the products whose stock_quantity <=
\* low_stock_threshold, the set on which is_low_stock is true; the predicate looks
\* at stock_quantity only, whatever is reserved or available (stock 3 with
\* threshold 5 is low stock)
LowStockQueryMatchesPredicate ==
    /\ [](\A p \in ProductRows :
            /\ \A r \in StockLevels :
                  is_low_stock([products[p] EXCEPT !.reserved_quantity = r])
                      <=> is_low_stock(products[p])
            /\ products[p].stock_quantity = 3 /\ products[p].low_stock_threshold = 5
                  => is_low_stock(products[p]))
    /\ [][\A proc \in Procs :
            Begins(proc) /\ get_low_stock_products(proc) =>
                {call'[proc].result[i] : i \in DOMAIN call'[proc].result}
                    = {p \in ProductRows : is_low_stock(products[p])}]_vars

\* the query has returned one product and left out the other, on a shelf where the
\* returned product has stock 3, threshold 5 and nothing available, and the one left
\* out has less available than its threshold
LowStockQueryReturned ==
    \E proc \in Procs :
        /\ call[proc].op = "get_low_stock_products" /\ call[proc].pc = "done"
        /\ Len(products) = 2
        /\ \E p, q \in 1..2 :
              /\ call[proc].result = <<p>>
              /\ products[p].stock_quantity = 3 /\ products[p].low_stock_threshold = 5
              /\ products[p].reserved_quantity = 3
              /\ q # p
              /\ products[q].stock_quantity > products[q].low_stock_threshold
              /\ available_quantity(products[q]) <= products[q].low_stock_threshold

\* the quantity of product p over the items of the orders of S in status PLACED
RECURSIVE PlacedQuantity(_, _)
PlacedQuantity(S, p) ==
    IF S = {} THEN 0
    ELSE LET o == CHOOSE x \in S : TRUE
         IN (IF orders[o].status = PLACED THEN ItemQuantity(orders[o].items, p) ELSE 0)
            + PlacedQuantity(S \ {o}, p)

\* C26: with quantities changed only by create_order and update_order_status, each
\* product's committed reserved_quantity equals the total quantity of that product
\* over the items of the orders whose status is PLACED
ReservedMatchesPlacedOrders ==
    \A p \in ProductRows :
        products[p].reserved_quantity = PlacedQuantity(OrderIds, p)

\* C27: of two update_order_status calls to PAID or CANCELLED that run concurrently
\* on the same PLACED order at most one takes effect: a call that read the order as
\* PLACED and finishes after another call has paid or cancelled it returns False and
\* leaves orders, product quantities and the audit log as the other call left them
ConcurrentTransitionsApplyOnce ==
    [][\A proc \in Procs :
          LET c == call[proc] IN
          (/\ Finishes(proc)
           /\ c.op = "update_order_status"
           /\ c.status \in {PAID, CANCELLED}
           /\ c.result = PLACED
           /\ orders[c.order_id].status \in {PAID, CANCELLED})
          => /\ ~call'[proc].ok
             /\ UNCHANGED <<products, orders, audit>>]_vars

\* C28: in every reachable state an order's paid_at is set exactly when its status
\* is PAID or DELIVERED and its delivered_at exactly when its status is DELIVERED,
\* and a paid_at once set is never overwritten
TimestampsFollowStatus ==
    /\ [](\A o \in OrderIds :
            OrderExists(o) =>
                /\ orders[o].paid_at # NULL <=> orders[o].status \in {PAID, DELIVERED}
                /\ orders[o].delivered_at # NULL <=> orders[o].status = DELIVERED)
    /\ [][\A o \in OrderIds :
            orders[o].paid_at # NULL => orders'[o].paid_at = orders[o].paid_at]_vars

\* C29: a successful create_order commits in its one finishing step the order row
\* in status PLACED with no paid_at or delivered_at and with one item row per input
\* item, adds each item's quantity to its product's reserved_quantity and leaves
\* stock_quantity alone, and adds one RESERVE entry per item carrying the new order's
\* id; a product listed in two items is reserved for the sum of the two quantities,
\* and only when that sum is available
CreateOrderCommitsWhole ==
    [][\A proc \in Procs :
          LET c == call[proc]
              o == c.order_id
          IN (c.op = "create_order" /\ Finishes(proc) /\ call'[proc].ok)
             => /\ ~OrderExists(o)
                /\ orders' = [orders EXCEPT ![o] = Order(PLACED, c.items, NULL, NULL)]
                /\ Len(products') = Len(products)
                /\ \A p \in ProductRows :
                      /\ ItemQuantity(c.items, p) > 0
                            => ItemQuantity(c.items, p) <= available_quantity(products[p])
                      /\ products'[p] = [products[p] EXCEPT !.reserved_quantity =
                                             @ + ItemQuantity(c.items, p)]
                /\ \A i \in DOMAIN c.items : Exists(c.items[i].product_id)
                /\ audit' = audit (+) ItemEntries(c.items, RESERVE, o)]_vars

\* an order listing the same product twice has been committed
SameProductTwiceOrdered ==
    \E o \in OrderIds, p \in ProductIds :
        /\ orders[o].status = PLACED
        /\ orders[o].items = <<OrderItem(p, 1), OrderItem(p, 1)>>
        /\ products[p].reserved_quantity = 2
        /\ CopiesIn(InventoryTransaction(p, RESERVE, 1, o), audit) = 2

\* C30: an update_order_status call naming an order id that has no row returns
\* False in its first step and changes nothing: no order row, product quantity or
\* audit entry is created or modified, whatever the requested status
MissingOrderRejected ==
    [][\A proc \in Procs :
          Begins(proc) =>
             \A o \in {x \in OrderIds : orders[x].status = "absent"}, st \in OrderStatus :
                update_order_status_select(proc, o, st)
                => /\ call'[proc].pc = "done"
                   /\ ~call'[proc].ok
                   /\ UNCHANGED <<products, orders, audit>>]_vars

\* a caller is about to ask for a transition of order 2, which has no row: order 1
\* is PLACED and the create_order that drew id 2 has not committed
MissingOrderAsked ==
    \E a \in Procs, b \in Procs :
        /\ a # b
        /\ orders[1].status = PLACED /\ orders[2].status = "absent"
        /\ call[a].op = "create_order" /\ call[a].order_id = 2 /\ call[a].pc = "commit"
        /\ call[a].locks # {}
        /\ ENABLED (update_order_status_select(b, 2, CANCELLED))

====
